---- MODULE Spec2Model ----
(***************************************************************************)
(* A model of image_encryption.py: the ImageCipher class, its per-pixel    *)
(* operations (_extract_channels, _apply_channel_math, _swap_channels),    *)
(* its key validation, and transform() as a state machine that opens the   *)
(* input image, validates, loops over the pixels, and saves the output.    *)
(***************************************************************************)
EXTENDS Integers, Sequences, FiniteSets, TLC

VARIABLES
    input_file,     \* the image stored at self.input_file: [mode, data]
    output_ext,     \* extension of self.output_file (".png" or ".jpg")
    output_file,    \* the image stored at self.output_file, NoFile until saved
    mode,           \* transform() argument
    operation,      \* transform() argument
    key,            \* transform() argument, a Python value [type, val]
    swap_type,      \* transform() argument, a string or NoneStr
    pixels,         \* local of transform(): list(img.getdata())
    transformed,    \* local of transform(): the output list being built
    actual_op,      \* local of transform(): the resolved math operation
    validated_key,  \* local of transform(): the key _validate_key returned
    pc,             \* position inside transform()
    error,          \* message of the ValueError raised, "" when none
    run,            \* number of the current invocation of the tool
    prev,           \* the previous invocation: its mode, pixels and transformed
    fin,            \* argument of the pure function under study
    fout            \* result of the pure function under study

vars == <<input_file, output_ext, output_file, mode, operation, key, swap_type,
          pixels, transformed, actual_op, validated_key, pc, error, run, prev,
          fin, fout>>

tvars == <<input_file, output_ext, output_file, mode, operation, key, swap_type,
           pixels, transformed, actual_op, validated_key, pc, error, run, prev>>

----------------------------------------------------------------------------
(* Bounds of the model *)

MaxLen == 2
MaxRuns == 2
MaxArity == 5
MaxJpegError == 1

(* Program constants *)

Modulus == 256
KeyMin == 0
KeyMax == 255
OpaqueAlpha == 255

Byte == 0 .. (Modulus - 1)

----------------------------------------------------------------------------
(* Python values *)

NoneStr == "<None>"
IntKey(n) == [type |-> "int", val |-> n]
NoneKey == [type |-> "NoneType", val |-> 0]
\* a float key such as 37.5; val is its integer part, never read by the code
FloatKey(n) == [type |-> "float", val |-> n]

Ok(v) == [err |-> "", val |-> v]
Raise(msg) == [err |-> msg, val |-> <<>>]

ErrNeedKey == "Need a key value (0-255) for this operation"
ErrKeyRange == "Key needs to be an integer from 0 to 255"
ErrSwapType == "Need to specify swap type: rg, rb, or gb"
ErrInvalidSwap == "Invalid swap type"
ErrUnknownOp == "Unknown operation"
ErrUnpack == "ValueError: wrong number of values to unpack"

MathOps == {"xor", "add", "sub"}
SwapTypes == {"rg", "rb", "gb"}

----------------------------------------------------------------------------
(* Python's ^ on non-negative integers *)

RECURSIVE BitXor(_, _)
BitXor(a, b) ==
    IF a = 0 THEN b
    ELSE IF b = 0 THEN a
    ELSE (((a % 2) + (b % 2)) % 2) + 2 * BitXor(a \div 2, b \div 2)

(* _validate_key with the upper comparison off by one: key > 256 *)
ValidateKeyOffByOne(k) ==
    IF k.type = "NoneType" THEN Raise(ErrNeedKey)
    ELSE IF k.type # "int" \/ k.val < KeyMin \/ k.val > KeyMax + 1
         THEN Raise(ErrKeyRange)
         ELSE Ok(k.val)

(* ImageCipher._validate_key *)
_validate_key(k) ==
    IF k.type = "NoneType" THEN Raise(ErrNeedKey)
    ELSE IF k.type # "int" \/ k.val < KeyMin \/ k.val > KeyMax
         THEN Raise(ErrKeyRange)
         ELSE Ok(k.val)

(* _extract_channels that slices pixel[:4] instead of unpacking *)
ExtractChannelsSliced(pixel) ==
    IF Len(pixel) = 3
    THEN Ok(<<pixel[1], pixel[2], pixel[3], OpaqueAlpha>>)
    ELSE IF Len(pixel) >= 4
         THEN Ok(<<pixel[1], pixel[2], pixel[3], pixel[4]>>)
         ELSE Raise(ErrUnpack)

(* ImageCipher._extract_channels: a 3-tuple gets alpha 255, anything else is
   unpacked into four names, which raises unless it has exactly 4 values *)
_extract_channels(pixel) ==
    IF Len(pixel) = 3
    THEN Ok(<<pixel[1], pixel[2], pixel[3], OpaqueAlpha>>)
    ELSE IF Len(pixel) = 4
         THEN Ok(<<pixel[1], pixel[2], pixel[3], pixel[4]>>)
         ELSE Raise(ErrUnpack)

(* channel arithmetic that saturates instead of wrapping *)
ChannelMathClamped(c, op, k) ==
    CASE op = "xor" -> BitXor(c, k)
      [] op = "add" -> IF c + k > Modulus - 1 THEN Modulus - 1 ELSE c + k
      [] op = "sub" -> IF c - k < 0 THEN 0 ELSE c - k
      [] OTHER -> c

(* One colour channel of _apply_channel_math *)
ChannelMath(c, op, k) ==
    CASE op = "xor" -> BitXor(c, k)
      [] op = "add" -> (c + k) % Modulus
      [] op = "sub" -> (c - k) % Modulus
      [] OTHER -> c

(* _apply_channel_math that also runs the alpha channel through the math *)
ApplyChannelMathWithAlpha(pixel, op, k) ==
    LET ch == _extract_channels(pixel) IN
    IF ch.err # "" THEN ch
    ELSE Ok(<<ChannelMath(ch.val[1], op, k),
              ChannelMath(ch.val[2], op, k),
              ChannelMath(ch.val[3], op, k),
              ChannelMath(ch.val[4], op, k)>>)

(* ImageCipher._apply_channel_math *)
_apply_channel_math(pixel, op, k) ==
    LET ch == _extract_channels(pixel) IN
    IF ch.err # "" THEN ch
    ELSE Ok(<<ChannelMath(ch.val[1], op, k),
              ChannelMath(ch.val[2], op, k),
              ChannelMath(ch.val[3], op, k),
              ch.val[4]>>)

(* a swaps dictionary whose "rg" entry rotates the three colours *)
SwapTableRotating(r, g, b, a, st) ==
    CASE st = "rg" -> <<g, b, r, a>>
      [] st = "rb" -> <<b, g, r, a>>
      [] st = "gb" -> <<r, b, g, a>>

(* The swaps dictionary of _swap_channels *)
SwapTable(r, g, b, a, st) ==
    CASE st = "rg" -> <<g, r, b, a>>
      [] st = "rb" -> <<b, g, r, a>>
      [] st = "gb" -> <<r, b, g, a>>

(* ImageCipher._swap_channels *)
_swap_channels(pixel, st) ==
    LET ch == _extract_channels(pixel) IN
    IF ch.err # "" THEN ch
    ELSE IF st \notin SwapTypes THEN Raise(ErrInvalidSwap)
    ELSE Ok(SwapTable(ch.val[1], ch.val[2], ch.val[3], ch.val[4], st))

(* mode resolution that never reverses the operation *)
ResolveOpNoReverse(op, m) == op

(* mode resolution that reverses for every mode but "encrypt" *)
ResolveOpUnlessEncrypt(op, m) ==
    IF m # "encrypt"
    THEN IF op = "add" THEN "sub"
         ELSE IF op = "sub" THEN "add"
         ELSE op
    ELSE op

(* transform(): the operation actually performed for (operation, mode) *)
ResolveOp(op, m) ==
    IF m = "decrypt"
    THEN IF op = "add" THEN "sub"
         ELSE IF op = "sub" THEN "add"
         ELSE op
    ELSE op

(* a swap guard that only tests "not swap_type" *)
SwapTypeRejectedIfEmpty(st) ==
    st = NoneStr \/ st = ""

(* transform(): the guard of the swap branch,
   not swap_type or swap_type not in ["rg", "rb", "gb"] *)
SwapTypeRejected(st) ==
    st = NoneStr \/ st = "" \/ st \notin SwapTypes

----------------------------------------------------------------------------
(* The image files, as PIL presents them *)

NoFile == [mode |-> "none", data |-> <<>>]

(* Image.open(self.input_file).convert("RGBA") followed by getdata():
   every pixel becomes a 4-tuple, an image without alpha becomes opaque *)
ConvertRGBA(file) ==
    [i \in 1 .. Len(file.data) |->
        IF Len(file.data[i]) = 3
        THEN <<file.data[i][1], file.data[i][2], file.data[i][3], OpaqueAlpha>>
        ELSE file.data[i]]

(* What a JPEG encoder may do to one channel: a reconstruction error of d *)
JpegChannel(c, d) == IF c + d > Modulus - 1 THEN c - d ELSE c + d

(* ImageCipher._save_output: a .jpg/.jpeg output is converted to RGB (alpha
   is dropped) and stored lossily; any other extension stores the RGBA data *)
_save_output(img, ext, d) ==
    IF ext \in {".jpg", ".jpeg"}
    THEN [mode |-> "RGB",
          data |-> [i \in 1 .. Len(img) |->
                      <<JpegChannel(img[i][1], d), JpegChannel(img[i][2], d),
                        JpegChannel(img[i][3], d)>>]]
    ELSE [mode |-> "RGBA", data |-> img]

----------------------------------------------------------------------------
(* Inputs the model draws from *)

SampleRGBA == {<<100, 150, 200, 255>>, <<250, 10, 5, 128>>}
SampleRGB == {<<10, 20, 30>>}

SeqsUpTo(S, n) == UNION {[1 .. m -> S] : m \in 1 .. n}

InputFiles ==
    {[mode |-> "RGBA", data |-> d] : d \in SeqsUpTo(SampleRGBA, MaxLen)}
    \cup {[mode |-> "RGB", data |-> d] : d \in SeqsUpTo(SampleRGB, MaxLen)}

Modes == {"encrypt", "decrypt", "ENCRYPT"}
Operations == MathOps \cup {"swap", "blur"}
Keys == {NoneKey, FloatKey(37), IntKey(-1), IntKey(256),
         IntKey(0), IntKey(255), IntKey(37), IntKey(10)}
SwapArgs == SwapTypes \cup {NoneStr, "", "gr"}
Extensions == {".png", ".jpg"}

NoPrev == [mode |-> "", pixels |-> <<>>, transformed |-> <<>>]
NoFin == [fn |-> "", pixel |-> <<>>, c |-> 0, op |-> "", mode |-> "", k |-> 0]
NoFout == Raise("pending")

----------------------------------------------------------------------------
(* transform() as a state machine *)

Init ==
    /\ input_file \in InputFiles
    /\ output_ext \in Extensions
    /\ output_file = NoFile
    /\ mode \in Modes
    /\ operation \in Operations
    /\ key \in Keys
    /\ swap_type \in SwapArgs
    /\ pixels = <<>>
    /\ transformed = <<>>
    /\ actual_op = ""
    /\ validated_key = 0
    /\ pc = "call"
    /\ error = ""
    /\ run = 1
    /\ prev = NoPrev
    /\ fin = NoFin
    /\ fout = NoFout

(* lines 86-89: open the image, convert to RGBA, list the pixels *)
Open ==
    /\ pc = "call"
    /\ pixels' = ConvertRGBA(input_file)
    /\ transformed' = <<>>
    /\ pc' = "branch"
    /\ UNCHANGED <<input_file, output_ext, output_file, mode, operation, key,
                   swap_type, actual_op, validated_key, error, run, prev,
                   fin, fout>>

(* insert(0, new_pixel) instead of append *)
PrependPixel(out, new_pixel) == <<new_pixel>> \o out

(* line 107 / line 117: transformed.append(new_pixel) *)
AppendPixel(out, new_pixel) == Append(out, new_pixel)

(* line 105 / line 115: the pixel the for loop hands to the body, given how
   many pixels have been handled *)
LoopPixel(pxs, done) == pxs[done + 1]

(* lines 92-102: the math branch validates the key and resolves the op *)
MathBegin ==
    /\ pc = "branch"
    /\ operation \in MathOps
    /\ LET v == _validate_key(key) IN
       IF v.err # ""
       THEN /\ pc' = "raised"
            /\ error' = v.err
            /\ UNCHANGED <<validated_key, actual_op>>
       ELSE /\ validated_key' = v.val
            /\ actual_op' = ResolveOp(operation, mode)
            /\ pc' = "math_loop"
            /\ UNCHANGED error
    /\ UNCHANGED <<input_file, output_ext, output_file, mode, operation, key,
                   swap_type, pixels, transformed, run, prev, fin, fout>>

(* lines 105-107: one iteration of the math loop *)
MathStep ==
    /\ pc = "math_loop"
    /\ Len(transformed) < Len(pixels)
    /\ LET new_pixel == _apply_channel_math(LoopPixel(pixels, Len(transformed)),
                                            actual_op, validated_key) IN
       IF new_pixel.err # ""
       THEN /\ pc' = "raised"
            /\ error' = new_pixel.err
            /\ UNCHANGED transformed
       ELSE /\ transformed' = AppendPixel(transformed, new_pixel.val)
            /\ UNCHANGED <<pc, error>>
    /\ UNCHANGED <<input_file, output_ext, output_file, mode, operation, key,
                   swap_type, pixels, actual_op, validated_key, run, prev,
                   fin, fout>>

(* lines 110-112: the swap branch validates the selector *)
SwapBegin ==
    /\ pc = "branch"
    /\ operation \notin MathOps
    /\ operation = "swap"
    /\ IF SwapTypeRejected(swap_type)
       THEN /\ pc' = "raised"
            /\ error' = ErrSwapType
       ELSE /\ pc' = "swap_loop"
            /\ UNCHANGED error
    /\ UNCHANGED <<input_file, output_ext, output_file, mode, operation, key,
                   swap_type, pixels, transformed, actual_op, validated_key,
                   run, prev, fin, fout>>

(* lines 115-117: one iteration of the swap loop *)
SwapStep ==
    /\ pc = "swap_loop"
    /\ Len(transformed) < Len(pixels)
    /\ LET new_pixel == _swap_channels(LoopPixel(pixels, Len(transformed)),
                                       swap_type) IN
       IF new_pixel.err # ""
       THEN /\ pc' = "raised"
            /\ error' = new_pixel.err
            /\ UNCHANGED transformed
       ELSE /\ transformed' = AppendPixel(transformed, new_pixel.val)
            /\ UNCHANGED <<pc, error>>
    /\ UNCHANGED <<input_file, output_ext, output_file, mode, operation, key,
                   swap_type, pixels, actual_op, validated_key, run, prev,
                   fin, fout>>

(* lines 119-120: any other operation *)
UnknownOperation ==
    /\ pc = "branch"
    /\ operation \notin MathOps
    /\ operation # "swap"
    /\ pc' = "raised"
    /\ error' = ErrUnknownOp
    /\ UNCHANGED <<input_file, output_ext, output_file, mode, operation, key,
                   swap_type, pixels, transformed, actual_op, validated_key,
                   run, prev, fin, fout>>

(* a loop that may be left before the last pixel *)
LoopDoneEarly(pxs, out) == Len(out) >= Len(pxs) - 1

(* the for loop of line 105 / 115 is exhausted *)
LoopDone(pxs, out) == Len(out) >= Len(pxs)

(* lines 122-128: build the output image, save it, return *)
Save ==
    /\ pc \in {"math_loop", "swap_loop"}
    /\ LoopDone(pixels, transformed)
    /\ \E d \in 0 .. MaxJpegError :
          output_file' = _save_output(transformed, output_ext, d)
    /\ pc' = "returned"
    /\ UNCHANGED <<input_file, output_ext, mode, operation, key, swap_type,
                   pixels, transformed, actual_op, validated_key, error, run,
                   prev, fin, fout>>

(* run(), lines 183-196, invoked again: the tool is run on the image it just
   wrote, with the same operation, key and selector and a mode of choice *)
ReRun ==
    /\ pc = "returned"
    /\ run < MaxRuns
    /\ run' = run + 1
    /\ prev' = [mode |-> mode, pixels |-> pixels, transformed |-> transformed]
    /\ input_file' = output_file
    /\ output_file' = NoFile
    /\ mode' \in Modes
    /\ pixels' = <<>>
    /\ transformed' = <<>>
    /\ actual_op' = ""
    /\ validated_key' = 0
    /\ pc' = "call"
    /\ UNCHANGED <<output_ext, operation, key, swap_type, error, fin, fout>>

Next ==
    \/ Open
    \/ MathBegin
    \/ MathStep
    \/ SwapBegin
    \/ SwapStep
    \/ UnknownOperation
    \/ Save
    \/ ReRun

Spec == Init /\ [][Next]_vars

----------------------------------------------------------------------------
(* The pure functions on their own: the input is drawn, the function applied *)

Idle ==
    /\ input_file = NoFile
    /\ output_ext = ".png"
    /\ output_file = NoFile
    /\ mode = ""
    /\ operation = ""
    /\ key = NoneKey
    /\ swap_type = NoneStr
    /\ pixels = <<>>
    /\ transformed = <<>>
    /\ actual_op = ""
    /\ validated_key = 0
    /\ pc = "idle"
    /\ error = ""
    /\ run = 0
    /\ prev = NoPrev

ExtractVals == {0, 7, 255}
ExtractInputs == UNION {[1 .. n -> ExtractVals] : n \in 0 .. MaxArity}

InitExtract ==
    /\ Idle
    /\ fin \in {[fn |-> "_extract_channels", pixel |-> p, c |-> 0, op |-> "",
                 mode |-> "", k |-> 0] : p \in ExtractInputs}
    /\ fout = NoFout

(* a call of _extract_channels(pixel) *)
CallExtract ==
    /\ fin.fn = "_extract_channels"
    /\ fout = NoFout
    /\ fout' = _extract_channels(fin.pixel)
    /\ UNCHANGED <<fin, tvars>>

NextExtract == CallExtract

SpecExtract == InitExtract /\ [][NextExtract]_vars

(* the pixel whose red channel is c; the other channels run over all bytes
   as c does *)
MathPixel(c) == <<c, (Modulus - 1) - c, (7 * c) % Modulus, (c + 1) % Modulus>>

(* the keys tried: both ends of every 8-block of 0..255, and 10 and 37 *)
MathKeys == {k \in KeyMin .. KeyMax : k % 8 \in {0, 7}} \cup {10, 37}

InitMath ==
    /\ Idle
    /\ fin \in {[fn |-> "_apply_channel_math", pixel |-> MathPixel(c), c |-> c,
                 op |-> o, mode |-> m, k |-> k] :
                    c \in Byte, o \in MathOps, m \in Modes, k \in MathKeys}
    /\ fout = NoFout

(* lines 96-106 for one pixel: resolve the operation for the mode, then
   _apply_channel_math(pixel, actual_op, validated_key) *)
CallMath ==
    /\ fin.fn = "_apply_channel_math"
    /\ fout = NoFout
    /\ fout' = _apply_channel_math(fin.pixel, ResolveOp(fin.op, fin.mode), fin.k)
    /\ UNCHANGED <<fin, tvars>>

NextMath == CallMath

SpecMath == InitMath /\ [][NextMath]_vars

----------------------------------------------------------------------------
(* Properties *)

InLoopOrReturned == pc \in {"math_loop", "swap_loop", "returned"}
PastBranch == pc \notin {"call", "branch"}

(* the previous invocation's output sequence is this invocation's input *)
ChainedOnPrev == run >= 2 /\ pixels = prev.transformed

(* C1: round trip of the math operations. When transform ran with
   mode=encrypt and op in {xor, add, sub}, and transform then runs with
   mode=decrypt, the same op and the same key on the sequence the first run
   produced, the result equals the first run's input sequence in every
   element and every channel. *)
C1_RoundTripMath ==
    (/\ pc = "returned"
     /\ operation \in MathOps
     /\ ChainedOnPrev
     /\ prev.mode = "encrypt"
     /\ mode = "decrypt")
    => transformed = prev.pixels

C1_Witness ==
    /\ pc = "returned"
    /\ operation = "add"
    /\ key = IntKey(10)
    /\ ChainedOnPrev
    /\ prev.mode = "encrypt"
    /\ mode = "decrypt"
    /\ prev.pixels = <<(<<250, 10, 5, 128>>)>>
    /\ prev.transformed = <<(<<4, 20, 15, 128>>)>>
    /\ transformed = prev.pixels

(* C2: round trip of swap. Applying the swap operation twice with the same
   selector returns the original sequence, whatever the mode of either
   application. *)
C2_RoundTripSwap ==
    (/\ pc = "returned"
     /\ operation = "swap"
     /\ ChainedOnPrev)
    => transformed = prev.pixels

C2_Witness ==
    /\ pc = "returned"
    /\ operation = "swap"
    /\ swap_type = "rg"
    /\ ChainedOnPrev
    /\ prev.mode = "decrypt"
    /\ mode = "encrypt"
    /\ Len(pixels) = 2
    /\ prev.transformed[1] = <<10, 250, 5, 128>>
    /\ transformed = prev.pixels

(* C3: alpha invariance. Every pixel a successful transform has produced
   carries the alpha of the input pixel at the same position. *)
C3_AlphaInvariance ==
    InLoopOrReturned =>
        \A i \in 1 .. Len(transformed) :
            i <= Len(pixels) /\ transformed[i][4] = pixels[i][4]

C3_Witness ==
    /\ pc = "returned"
    /\ operation = "xor"
    /\ key = IntKey(37)
    /\ Len(transformed) = 2
    /\ pixels[2] = <<250, 10, 5, 128>>
    /\ transformed[2] = <<223, 47, 32, 128>>

(* the per-pixel transform the call resolved to *)
PerPixel(p) ==
    IF operation \in MathOps
    THEN _apply_channel_math(p, actual_op, validated_key).val
    ELSE _swap_channels(p, swap_type).val

(* C4: order and length preservation. While the loop runs, the output built
   so far is the resolved per-pixel transform applied to the input's prefix,
   position by position; the sequence handed to the save step has the
   input's length. *)
C4_OrderLength ==
    /\ InLoopOrReturned =>
         /\ Len(transformed) <= Len(pixels)
         /\ \A i \in 1 .. Len(transformed) : transformed[i] = PerPixel(pixels[i])
    /\ pc = "returned" => Len(transformed) = Len(pixels)

C4_Witness ==
    /\ pc = "returned"
    /\ operation = "sub"
    /\ mode = "encrypt"
    /\ key = IntKey(10)
    /\ pixels = <<(<<100, 150, 200, 255>>), (<<250, 10, 5, 128>>)>>
    /\ transformed = <<(<<90, 140, 190, 255>>), (<<240, 0, 251, 128>>)>>

(* bit b of the byte n *)
Bit(n, b) == (n \div (2 ^ b)) % 2

AddWrapped(c, k) == IF c + k < Modulus THEN c + k ELSE c + k - Modulus
SubWrapped(c, k) == IF c - k >= 0 THEN c - k ELSE c - k + Modulus

(* C5: mode resolution. For each colour channel c and key k: add/encrypt and
   sub/decrypt give (c + k) mod 256, sub/encrypt and add/decrypt give
   (c - k) mod 256, xor gives the bitwise exclusive or in both modes, and
   every result is a byte. *)
C5_ModeResolution ==
    (fin.fn = "_apply_channel_math" /\ fout # NoFout) =>
        /\ fout.err = ""
        /\ \A j \in 1 .. 3 :
            LET c == fin.pixel[j]
                r == fout.val[j]
            IN  /\ r \in Byte
                /\ (\/ (fin.op = "add" /\ fin.mode = "encrypt")
                    \/ (fin.op = "sub" /\ fin.mode = "decrypt"))
                   => r = AddWrapped(c, fin.k)
                /\ (\/ (fin.op = "sub" /\ fin.mode = "encrypt")
                    \/ (fin.op = "add" /\ fin.mode = "decrypt"))
                   => r = SubWrapped(c, fin.k)
                /\ (fin.op = "xor" /\ fin.mode \in {"encrypt", "decrypt"})
                   => \A b \in 0 .. 7 :
                         Bit(r, b) = (Bit(c, b) + Bit(fin.k, b)) % 2

C5_Witness ==
    /\ fout # NoFout
    /\ fin.op = "add"
    /\ fin.mode = "decrypt"
    /\ fin.c = 5
    /\ fin.k = 10
    /\ fout.val[1] = 251

KeyIsValid(k) == k.type = "int" /\ k.val >= 0 /\ k.val <= 255

(* C6: key validation. For xor, add and sub, transform raises the key error
   exactly when the key is None, not an int, or outside 0..255; every int
   in 0..255, the ends included, is accepted and used as given. *)
C6_KeyValidation ==
    (operation \in MathOps /\ PastBranch) =>
        IF KeyIsValid(key)
        THEN pc # "raised" /\ error = "" /\ validated_key = key.val
        ELSE /\ pc = "raised"
             /\ error = (IF key.type = "NoneType" THEN ErrNeedKey ELSE ErrKeyRange)

C6_Witness ==
    /\ operation = "add"
    /\ key = IntKey(256)
    /\ pc = "raised"
    /\ error = ErrKeyRange

(* C7: swap-selector validation. For swap, transform raises the selector
   error when the selector is absent or not one of rg, rb, gb; for each of
   those three it succeeds, and every output pixel has the two named
   channels exchanged and the third colour channel as it was. *)
C7_SwapValidation ==
    (operation = "swap" /\ PastBranch) =>
        IF swap_type \in {"rg", "rb", "gb"}
        THEN /\ pc # "raised"
             /\ \A i \in 1 .. Len(transformed) :
                  LET p == pixels[i]
                      t == transformed[i]
                  IN  /\ swap_type = "rg" => t[1] = p[2] /\ t[2] = p[1] /\ t[3] = p[3]
                      /\ swap_type = "rb" => t[1] = p[3] /\ t[3] = p[1] /\ t[2] = p[2]
                      /\ swap_type = "gb" => t[2] = p[3] /\ t[3] = p[2] /\ t[1] = p[1]
        ELSE pc = "raised" /\ error = ErrSwapType

C7_Witness ==
    /\ operation = "swap"
    /\ swap_type = "gr"
    /\ pc = "raised"
    /\ error = ErrSwapType

(* C8: fail fast, all or nothing. A transform that has raised has transformed
   no pixel and written no output; an operation outside xor, add, sub, swap
   raises the unknown-operation error; and the output file exists only once
   every input pixel has been transformed. *)
C8_FailFast ==
    /\ pc = "raised" =>
         /\ transformed = <<>>
         /\ output_file = NoFile
         /\ error \in {ErrNeedKey, ErrKeyRange, ErrSwapType, ErrUnknownOp}
    /\ (operation \notin MathOps \cup {"swap"} /\ PastBranch) =>
         pc = "raised" /\ error = ErrUnknownOp
    /\ output_file # NoFile =>
         pc = "returned" /\ error = "" /\ Len(transformed) = Len(pixels)

C8_Witness ==
    /\ pc = "raised"
    /\ operation = "blur"
    /\ error = ErrUnknownOp
    /\ Len(pixels) = 2
    /\ transformed = <<>>
    /\ output_file = NoFile

(* C9: channel extraction. A 4-value pixel comes back unchanged, a 3-value
   pixel comes back with alpha 255 appended, and any other arity raises. *)
C9_ExtractChannels ==
    (fin.fn = "_extract_channels" /\ fout # NoFout) =>
        LET p == fin.pixel IN
        /\ Len(p) = 4 => fout = Ok(p)
        /\ Len(p) = 3 => fout = Ok(p \o <<255>>)
        /\ Len(p) \notin {3, 4} => fout.err # "" /\ fout.val = <<>>

C9_Witness ==
    /\ fin.fn = "_extract_channels"
    /\ Len(fin.pixel) = 5
    /\ fout # NoFout
    /\ fout.err = ErrUnpack

(* the exchange a valid selector names, written out *)
Exchanged(p, st) ==
    IF st = "rg" THEN <<p[2], p[1], p[3], p[4]>>
    ELSE IF st = "rb" THEN <<p[3], p[2], p[1], p[4]>>
    ELSE <<p[1], p[3], p[2], p[4]>>

(* C10: unused parameters. With swap and a valid selector the call succeeds
   and its output is a function of the pixels and the selector alone, for
   every key; with a math operation and a valid key the call succeeds and
   its output is a function of the pixels, operation, mode and key alone,
   for every selector; a mode other than "decrypt" is handled as encrypt. *)
C10_UnusedParameters ==
    /\ (operation = "swap" /\ swap_type \in SwapTypes /\ PastBranch) =>
         /\ pc # "raised"
         /\ pc = "returned" =>
              transformed = [i \in 1 .. Len(pixels) |-> Exchanged(pixels[i], swap_type)]
    /\ (operation \in MathOps /\ KeyIsValid(key) /\ PastBranch) =>
         /\ pc # "raised"
         /\ mode # "decrypt" => actual_op = operation
         /\ pc = "returned" =>
              transformed =
                [i \in 1 .. Len(pixels) |->
                    LET op == IF mode = "decrypt" /\ operation = "add" THEN "sub"
                              ELSE IF mode = "decrypt" /\ operation = "sub" THEN "add"
                              ELSE operation
                        p == pixels[i]
                    IN  <<ChannelMath(p[1], op, key.val), ChannelMath(p[2], op, key.val),
                          ChannelMath(p[3], op, key.val), p[4]>>]

C10_Witness ==
    /\ operation = "swap"
    /\ swap_type = "rb"
    /\ key = IntKey(256)
    /\ pc = "returned"
    /\ Len(pixels) = 2
    /\ transformed[1] = <<200, 150, 100, 255>>

====
